---- MODULE Spec2Model ----
(***************************************************************************)
(* Model of src/src/memphis.py: the loop that asks a model for a table of  *)
(* yearly crime counts per chart image, normalises the free-text answer    *)
(* (_sanitize_response_text) and writes it as a CSV file                   *)
(* (_write_csv_from_text).                                                 *)
(*                                                                         *)
(* The other scripts of the repository are modelled after it: the yearly   *)
(* aggregation of los_angeles.py and portland.py, and the report loops of  *)
(* washington.py and chicago.py.  Each script has its own specification.   *)
(*                                                                         *)
(* A text is a sequence of characters; a character is a one-character      *)
(* string.  The three non-ASCII characters of the source are named:        *)
(* "endash" (U+2013), "emdash" (U+2014) and "bullet" (U+2022); the        *)
(* backquote, which a TLA+ string cannot hold, is named "backtick".        *)
(***************************************************************************)
EXTENDS Integers, Sequences, FiniteSets, TLC

VARIABLES pc, model_text, clean, csv_file,
          city, input_folder, crime_data, combined_df, categories,
          output_folder,
          pdf_files, CRIME_CATEGORIES, category_data, pdf_idx, cat_idx, year,
          page_nums

\* the state of memphis.py
memphisVars == <<model_text, clean, csv_file>>

\* the state of los_angeles.py and portland.py
aggregationVars == <<input_folder, crime_data, combined_df, categories>>

\* the state of washington.py and chicago.py
reportVars ==
    <<pdf_files, CRIME_CATEGORIES, category_data, pdf_idx, cat_idx, year,
      page_nums>>

vars == <<pc, memphisVars, city, aggregationVars, output_folder, reportVars>>

(***************************************************************************)
(* Character classes of the regular expressions and of str.strip.          *)
(***************************************************************************)
\* \d
Digit == {"0", "1", "2", "3", "4", "5", "6", "7", "8", "9"}

\* \s, and the characters str.strip() removes
Space == {" ", "\t", "\n", "\r"}

\* the characters text.strip('`\n\r ') removes
FenceStripChars == {"backtick", "\n", "\r", " "}

\* [-:endash emdash]
SepChar == {"-", ":", "endash", "emdash"}

\* [\-\*\u2022]
BulletChar == {"-", "*", "bullet"}

\* the year window of the post-processing filter
MinYear == 2014

MaxYear == 2024

\* \d{4}
YearLen == 4

\* [^\d]{0,10}
MaxGap == 10

\* the length of the ``` fence marker
FenceLen == 3

(***************************************************************************)
(* Sequence helpers.                                                       *)
(***************************************************************************)
Range(s) == {s[i] : i \in DOMAIN s}

\* s[i..] (empty when i > Len(s))
Drop(s, i) == SubSeq(s, i, Len(s))

\* the first index >= i of s whose character is not in set, Len(s)+1 if none
RECURSIVE SkipWhile(_, _, _)
SkipWhile(s, i, set) ==
    IF i <= Len(s) /\ s[i] \in set THEN SkipWhile(s, i + 1, set) ELSE i

\* the last index <= i of s whose character is not in set, 0 if none
RECURSIVE SkipBack(_, _, _)
SkipBack(s, i, set) ==
    IF i >= 1 /\ s[i] \in set THEN SkipBack(s, i - 1, set) ELSE i

\* StripChars removing at most one character at each end
StripCharsOnce(s, set) ==
    SubSeq(s, IF s # <<>> /\ s[1] \in set THEN 2 ELSE 1,
              IF s # <<>> /\ s[Len(s)] \in set THEN Len(s) - 1 ELSE Len(s))

\* str.strip(chars)
StripChars(s, set) ==
    SubSeq(s, SkipWhile(s, 1, set), SkipBack(s, Len(s), set))

\* str.strip()
Strip(s) == StripChars(s, Space)

(***************************************************************************)
(* _sanitize_response_text                                                 *)
(***************************************************************************)
\* ``` at index i
FenceAt(t, i) ==
    /\ i + FenceLen - 1 <= Len(t)
    /\ \A k \in 0..(FenceLen - 1) : t[i + k] = "backtick"

\* the least j >= i with ``` at j, 0 if none: the lazy [\s\S]*? ends there
RECURSIVE NextFence(_, _)
NextFence(t, i) ==
    IF i + FenceLen - 1 > Len(t) THEN 0
    ELSE IF FenceAt(t, i) THEN i
    ELSE NextFence(t, i + 1)

\* re.sub(r"```[\s\S]*?```", lambda m: m.group(0).strip('`'), text), from index i
RECURSIVE FenceSubFrom(_, _)
FenceSubFrom(t, i) ==
    IF i > Len(t) THEN <<>>
    ELSE IF FenceAt(t, i) /\ NextFence(t, i + FenceLen) # 0
    THEN LET j == NextFence(t, i + FenceLen)
         IN  StripChars(SubSeq(t, i, j + FenceLen - 1), {"backtick"})
                 \o FenceSubFrom(t, j + FenceLen)
    ELSE <<t[i]>> \o FenceSubFrom(t, i + 1)

FenceSub(t) == FenceSubFrom(t, 1)

\* SepSubFrom with the colon missing from the character class
RECURSIVE SepSubFromNoColon(_, _)
SepSubFromNoColon(t, i) ==
    IF i > Len(t) THEN <<>>
    ELSE LET k == SkipWhile(t, i, Space)
         IN  IF k <= Len(t) /\ t[k] \in {"-", "endash", "emdash"}
             THEN <<",">> \o SepSubFromNoColon(t, SkipWhile(t, k + 1, Space))
             ELSE <<t[i]>> \o SepSubFromNoColon(t, i + 1)

\* re.sub(r"\s*[-:endash emdash]\s*", ",", text), from index i: the greedy \s*
\* takes the whole whitespace run, a separator character must follow it
RECURSIVE SepSubFrom(_, _)
SepSubFrom(t, i) ==
    IF i > Len(t) THEN <<>>
    ELSE LET k == SkipWhile(t, i, Space)
         IN  IF k <= Len(t) /\ t[k] \in SepChar
             THEN <<",">> \o SepSubFrom(t, SkipWhile(t, k + 1, Space))
             ELSE <<t[i]>> \o SepSubFrom(t, i + 1)

SepSub(t) == SepSubFrom(t, 1)

Sanitize(text) == SepSub(StripChars(FenceSub(text), FenceStripChars))

(***************************************************************************)
(* _write_csv_from_text                                                    *)
(***************************************************************************)
\* text.splitlines(), from index i with the current line cur: "\n", "\r"
\* and "\r\n" end a line, a final line break opens no further line
RECURSIVE SplitLinesFrom(_, _, _)
SplitLinesFrom(t, i, cur) ==
    IF i > Len(t) THEN (IF cur = <<>> THEN <<>> ELSE <<cur>>)
    ELSE IF t[i] = "\r" /\ i < Len(t) /\ t[i + 1] = "\n"
    THEN <<cur>> \o SplitLinesFrom(t, i + 2, <<>>)
    ELSE IF t[i] \in {"\n", "\r"}
    THEN <<cur>> \o SplitLinesFrom(t, i + 1, <<>>)
    ELSE SplitLinesFrom(t, i + 1, Append(cur, t[i]))

SplitLines(t) == SplitLinesFrom(t, 1, <<>>)

\* re.sub(r"^[\-\*\u2022]\s*", "", line)
StripBullet(line) ==
    IF line # <<>> /\ line[1] \in BulletChar
    THEN Drop(line, SkipWhile(line, 2, Space))
    ELSE line

\* line.split(","), from index i with the current piece cur
RECURSIVE SplitCommaFrom(_, _, _)
SplitCommaFrom(t, i, cur) ==
    IF i > Len(t) THEN <<cur>>
    ELSE IF t[i] = ","
    THEN <<cur>> \o SplitCommaFrom(t, i + 1, <<>>)
    ELSE SplitCommaFrom(t, i + 1, Append(cur, t[i]))

\* re.split(r"\s+|\t", line), from index i with the current piece cur: a
\* whole whitespace run is one delimiter
RECURSIVE SplitSpaceFrom(_, _, _)
SplitSpaceFrom(t, i, cur) ==
    IF i > Len(t) THEN <<cur>>
    ELSE IF t[i] \in Space
    THEN <<cur>> \o SplitSpaceFrom(t, SkipWhile(t, i, Space), <<>>)
    ELSE SplitSpaceFrom(t, i + 1, Append(cur, t[i]))

\* [p.strip() for p in pieces if p.strip()]
RECURSIVE StripNonEmpty(_)
StripNonEmpty(pieces) ==
    IF pieces = <<>> THEN <<>>
    ELSE IF Strip(Head(pieces)) = <<>> THEN StripNonEmpty(Tail(pieces))
    ELSE <<Strip(Head(pieces))>> \o StripNonEmpty(Tail(pieces))

\* the tokens of a line: split on commas when it holds one, else on whitespace
Parts(line) ==
    IF "," \in Range(line)
    THEN StripNonEmpty(SplitCommaFrom(line, 1, <<>>))
    ELSE StripNonEmpty(SplitSpaceFrom(line, 1, <<>>))

\* re.match(r"^\d{4}$", p)
IsYear(p) == Len(p) = YearLen /\ \A i \in 1..Len(p) : p[i] \in Digit

\* parts.index(y), from index i
RECURSIVE IndexFrom(_, _, _)
IndexFrom(parts, y, i) ==
    IF parts[i] = y THEN i ELSE IndexFrom(parts, y, i + 1)

\* ScanRow with the last token as the value of a year that ends the line
ScanRowLastToken(parts) ==
    LET digits == SelectSeq(parts, IsYear)
    IN  IF digits = <<>> THEN <<>>
        ELSE LET y == digits[1]
                 k == IndexFrom(parts, y, 1)
                 val == IF k < Len(parts) THEN parts[k + 1]
                        ELSE parts[Len(parts)]
             IN  << <<y, val>> >>

\* the row of the 4-digit token found when parts[0] is not one
ScanRow(parts) ==
    LET digits == SelectSeq(parts, IsYear)
    IN  IF digits = <<>> THEN <<>>
        ELSE LET y == digits[1]
                 k == IndexFrom(parts, y, 1)
                 val == IF k < Len(parts) THEN parts[k + 1] ELSE parts[1]
             IN  << <<y, val>> >>

\* LineRow with a row for the third and fourth tokens as well
LineRowEveryPair(parts) ==
    IF Len(parts) < 2 THEN <<>>
    ELSE IF IsYear(parts[1])
    THEN << <<parts[1], parts[2]>> >>
             \o (IF Len(parts) >= 4 /\ IsYear(parts[3])
                 THEN << <<parts[3], parts[4]>> >> ELSE <<>>)
    ELSE ScanRow(parts)

\* the rows (none or one) a line's tokens append to lines
LineRow(parts) ==
    IF Len(parts) < 2 THEN <<>>
    ELSE IF IsYear(parts[1]) THEN << <<parts[1], parts[2]>> >>
    ELSE ScanRow(parts)

\* the body of the loop over text.splitlines() for one raw line
RawLineRow(raw) ==
    LET line == Strip(raw)
    IN  IF line = <<>> THEN <<>> ELSE LineRow(Parts(StripBullet(line)))

\* RowsOfLines with each row replacing the list instead of being appended
RECURSIVE RowsOfLinesOverwrite(_)
RowsOfLinesOverwrite(raws) ==
    IF raws = <<>> THEN <<>>
    ELSE IF RowsOfLinesOverwrite(Tail(raws)) # <<>>
    THEN RowsOfLinesOverwrite(Tail(raws))
    ELSE RawLineRow(Head(raws))

\* the rows of the raw lines, in line order
RECURSIVE RowsOfLines(_)
RowsOfLines(raws) ==
    IF raws = <<>> THEN <<>>
    ELSE RawLineRow(Head(raws)) \o RowsOfLines(Tail(raws))

\* lines after the loop over text.splitlines()
PerLine(text) == RowsOfLines(SplitLines(text))

\* re.findall(r"(\d{4})[^\d]{0,10}(\d+)", text), from index i: four digits,
\* the whole run of non-digits after them when it is at most 10 long, then the
\* whole run of digits; the scan goes on after the match
\* GapOk with [^\d]{0,11}
GapOkOneMore(t, i, d) == d <= Len(t) /\ d - (i + YearLen) <= MaxGap + 1

\* [^\d]{0,10}(\d+) after the four digits at i: the first digit after them
\* is at d, at most 10 non-digits further
GapOk(t, i, d) == d <= Len(t) /\ d - (i + YearLen) <= MaxGap

RECURSIVE FindAllFrom(_, _)
FindAllFrom(t, i) ==
    IF i + YearLen - 1 > Len(t) THEN <<>>
    ELSE IF \A k \in 0..(YearLen - 1) : t[i + k] \in Digit
    THEN LET d == SkipWhile(t, i + YearLen, Range(t) \ Digit)
             e == SkipWhile(t, d, Digit)
         IN  IF GapOk(t, i, d)
             THEN << <<SubSeq(t, i, i + YearLen - 1), SubSeq(t, d, e - 1)>> >>
                      \o FindAllFrom(t, e)
             ELSE FindAllFrom(t, i + 1)
    ELSE FindAllFrom(t, i + 1)

FindAll(t) == FindAllFrom(t, 1)

\* Candidates with the whole-text scan run whatever the loop has appended
CandidatesBothPasses(text) == PerLine(text) \o FindAll(text)

\* lines before the post-processing filter
Candidates(text) ==
    IF PerLine(text) # <<>> THEN PerLine(text) ELSE FindAll(text)

\* int(y) of a string of digits
RECURSIVE ToInt(_)
ToInt(y) ==
    IF y = <<>> THEN 0
    ELSE 10 * ToInt(SubSeq(y, 1, Len(y) - 1))
             + (CHOOSE n \in 0..9 : ToString(n) = y[Len(y)])

\* InWindow with the upper end of the window left out
InWindowUpperOpen(row) == MinYear <= ToInt(row[1]) /\ ToInt(row[1]) < MaxYear

\* 2014 <= int(y) <= 2024
InWindow(row) == MinYear <= ToInt(row[1]) /\ ToInt(row[1]) <= MaxYear

\* lines after the post-processing filter
FilteredRows(text) == SelectSeq(Candidates(text), InWindow)

YearCell == <<"y", "e", "a", "r">>

CountCell == <<"c", "o", "u", "n", "t">>

ResponseCell == <<"r", "e", "s", "p", "o", "n", "s", "e">>

\* WriteCsvFromText without the single-cell fallback: the header is written
\* even when no row is left
WriteCsvNoFallback(text) ==
    << <<YearCell, CountCell>> >> \o FilteredRows(text)

\* the rows the csv writer is given, in order
WriteCsvFromText(text) ==
    LET lines == FilteredRows(text)
    IN  IF lines # <<>>
        THEN << <<YearCell, CountCell>> >> \o lines
        ELSE << <<ResponseCell>>, <<text>> >>

(***************************************************************************)
(* The responses the model may give: well-formed tables, tables with other *)
(* separators, bulleted tables and assorted malformed lines, each of up to *)
(* MaxLines lines; responses put together freely from up to MaxPieces      *)
(* pieces; and the scenarios of the specification.                         *)
(***************************************************************************)
\* the most lines of a generated response
MaxLines == 2

Y2013 == <<"2", "0", "1", "3">>

Y2014 == <<"2", "0", "1", "4">>

Y2015 == <<"2", "0", "1", "5">>

Y2024 == <<"2", "0", "2", "4">>

Y2025 == <<"2", "0", "2", "5">>

\* the fence marker
Fence == <<"backtick", "backtick", "backtick">>

\* lines[1] \n lines[2] \n ... lines[n]
RECURSIVE JoinLines(_)
JoinLines(lines) ==
    IF Len(lines) = 0 THEN <<>>
    ELSE IF Len(lines) = 1 THEN lines[1]
    ELSE lines[1] \o <<"\n">> \o JoinLines(Tail(lines))

\* every response of 1..MaxLines lines drawn from lineSet
TextsOf(lineSet) ==
    {JoinLines(ls) : ls \in UNION {[1..n -> lineSet] : n \in 1..MaxLines}}

\* year,integer
CsvLines ==
    {y \o <<",">> \o v : y \in {Y2013, Y2014, Y2024, Y2025},
                         v \in {<<"5">>, <<"1", "2", "0">>, <<"-", "7">>}}

\* year SEP value
SepLines ==
    {y \o sep \o <<"5">> :
        y \in {Y2014, Y2025},
        sep \in {<<" ", "-", " ">>, <<":", " ">>, <<" ", "endash", " ">>,
                 <<" ", "emdash", " ">>, <<" ", "-", ":", " ">>,
                 <<" ", "\t">>}}

\* bullet year SEP value
BulletLines ==
    {b \o y \o sep \o <<"5">> :
        b \in {<<"-", " ">>, <<"*", " ">>, <<"bullet", " ">>},
        y \in {Y2014, Y2015},
        sep \in {<<" ", "-", " ">>, <<" ">>}}

\* headings, lone tokens, digit runs of other lengths, a fence marker
OddLines ==
    { <<>>,
      <<"a", ":">>,
      <<"-">>,
      <<"2", "0", "1", "4", "5">>,
      Y2015,
      <<"5", " ">> \o Y2014,
      <<"-">> \o Y2014,
      <<"a", " ">> \o Y2014 \o <<" ", "7">>,
      Y2014 \o <<",", "5">>,
      Y2025 \o <<" ", "6">>,
      <<"a">> \o Y2014 \o <<" ", "b", "5">>,
      <<"a", " ", "-", " ", "b">>,
      Fence }

ProseExample ==
    <<"R", "o", "b", "b", "e", "r", "y", " ", "t", "o", "t", "a", "l", "s",
    ":", " ", "2", "0", "1", "4", " ", "h", "a", "d", " ", "a", "b", "o",
    "u", "t", " ", "1", "2", "0", " ", "i", "n", "c", "i", "d", "e", "n",
    "t", "s", ",", " ", "2", "0", "1", "5", " ", "h", "a", "d", " ", "9",
    "8">>

SeparatorExample ==
    <<"2", "0", "1", "4", " ", "-", " ", "1", "2", "0", "\n", "2", "0", "1",
    "5", ":", " ", "9", "8", "\n", "2", "0", "1", "6", " ", "8", "7">>

NoDataExample ==
    <<"N", "o", " ", "d", "a", "t", "a", " ", "a", "v", "a", "i", "l", "a",
    "b", "l", "e", " ", "f", "o", "r", " ", "t", "h", "i", "s", " ", "c",
    "r", "i", "m", "e", ".">>

HeadingExample ==
    <<"R", "o", "b", "b", "e", "r", "y", ":", "\n", "2", "0", "1", "4", " ",
    "1", "2", "0", "\n", "2", "0", "1", "5", ",", "9", "8">>

FencePayload == <<"2", "0", "2", "0", ",", "4", "5">>

\* ```\n text \n```
Fenced(text) == Fence \o <<"\n">> \o text \o <<"\n">> \o Fence

\* ```csv\n text \n```
FencedWithHint(text) ==
    Fence \o <<"c", "s", "v", "\n">> \o text \o <<"\n">> \o Fence

TwoPairsExample ==
    <<"2", "0", "1", "4", ",", "1", "2", "0", ",", "2", "0", "1", "5", ",",
    "9", "8">>

Examples ==
    { <<>>, ProseExample, SeparatorExample, NoDataExample, HeadingExample,
      FencePayload, Fenced(FencePayload), FencedWithHint(FencePayload),
      TwoPairsExample }

\* the most pieces of a response put together freely
MaxPieces == 4

\* years, a count, a word, and the characters the parser gives a meaning to
Pieces ==
    { Y2014, Y2025, <<"7">>, <<"a">>, <<",">>, <<" ">>, <<"-">>, <<"\n">>,
      Fence }

\* s[1] s[2] ... s[n]
RECURSIVE Concat(_)
Concat(s) == IF s = <<>> THEN <<>> ELSE Head(s) \o Concat(Tail(s))

\* every response of 1..MaxPieces pieces
FreeTexts ==
    {Concat(ps) : ps \in UNION {[1..n -> Pieces] : n \in 1..MaxPieces}}

Responses ==
    TextsOf(CsvLines) \cup TextsOf(SepLines) \cup TextsOf(BulletLines)
        \cup TextsOf(OddLines) \cup FreeTexts \cup Examples

(***************************************************************************)
(* One pass of the loop over photo_links, from the response received       *)
(* (model_text) to the file written.                                       *)
(***************************************************************************)
Init ==
    /\ pc = "received"
    /\ model_text \in Responses
    /\ clean = <<>>
    /\ csv_file = <<>>
    /\ city = "Memphis"
    /\ input_folder = <<>>
    /\ crime_data = <<>>
    /\ combined_df = <<>>
    /\ categories = <<>>
    /\ output_folder = {}
    /\ pdf_files = <<>>
    /\ CRIME_CATEGORIES = <<>>
    /\ category_data = <<>>
    /\ pdf_idx = 0
    /\ cat_idx = 0
    /\ year = <<>>
    /\ page_nums = <<>>

\* clean = _sanitize_response_text(model_text)
SanitizeResponse ==
    /\ pc = "received"
    /\ clean' = Sanitize(model_text)
    /\ pc' = "sanitized"
    /\ UNCHANGED <<model_text, csv_file>>
    /\ UNCHANGED <<city, aggregationVars, output_folder, reportVars>>

\* _write_csv_from_text(out_path, clean)
WriteCsv ==
    /\ pc = "sanitized"
    /\ csv_file' = WriteCsvFromText(clean)
    /\ pc' = "written"
    /\ UNCHANGED <<model_text, clean>>
    /\ UNCHANGED <<city, aggregationVars, output_folder, reportVars>>

Next == SanitizeResponse \/ WriteCsv

Spec == Init /\ [][Next]_vars

(***************************************************************************)
(* Properties.                                                             *)
(***************************************************************************)
HeaderRow == <<YearCell, CountCell>>

\* a year,count table with at least one row of two cells
IsTable(f) ==
    /\ Len(f) >= 2
    /\ f[1] = HeaderRow
    /\ \A i \in 2..Len(f) : Len(f[i]) = 2

\* a response table with exactly one row of one cell
IsDiagnostic(f) ==
    /\ Len(f) = 2
    /\ f[1] = <<ResponseCell>>
    /\ Len(f[2]) = 1

\* the year/count rows of a file, none for a response table
DataRows(f) == IF f # <<>> /\ f[1] = HeaderRow THEN Tail(f) ELSE <<>>

\* sanitize followed by _write_csv_from_text
Extract(text) == WriteCsvFromText(Sanitize(text))

\* C1: whatever the response, the empty one included, the file written is
\* either a year,count table with at least one row or a response table with
\* exactly one row, never a bare header and never both shapes at once.
C1_ResultNeverEmpty ==
    pc = "written" =>
        /\ IsTable(csv_file) \/ IsDiagnostic(csv_file)
        /\ ~(IsTable(csv_file) /\ IsDiagnostic(csv_file))

\* the empty response has been written, as one diagnostic row
C1_Witness ==
    /\ pc = "written"
    /\ model_text = <<>>
    /\ csv_file = << <<ResponseCell>>, << <<>> >> >>

\* C2: when no row is left after the range filter, the single response cell
\* holds the response exactly as it was received, before fence stripping and
\* separator normalisation.
C2_FallbackHoldsRawResponse ==
    (pc = "written" /\ IsDiagnostic(csv_file)) =>
        csv_file[2] = <<model_text>>

\* the lengths of the maximal digit runs of t, from index i
RECURSIVE DigitRunLengths(_, _)
DigitRunLengths(t, i) ==
    IF i > Len(t) THEN {}
    ELSE IF t[i] \in Digit
    THEN LET e == SkipWhile(t, i, Digit)
         IN  {e - i} \cup DigitRunLengths(t, e)
    ELSE DigitRunLengths(t, i + 1)

\* C3: a non-empty response that holds no token of exactly four digits
\* (only longer or shorter digit runs, and words) is written as the
\* diagnostic row, with no year/count row.
C3_NoYearTokenFallsBack ==
    (/\ pc = "written"
     /\ model_text # <<>>
     /\ YearLen \notin DigitRunLengths(model_text, 1)) =>
        IsDiagnostic(csv_file)

\* the years 2014..2024, written out
WindowYears ==
    {<<"2", "0", "1", d>> : d \in {"4", "5", "6", "7", "8", "9"}}
        \cup {<<"2", "0", "2", d>> : d \in {"0", "1", "2", "3", "4"}}

YearInWindow(row) == row[1] \in WindowYears

\* C4: the rows written are exactly the candidate rows whose year lies in
\* 2014..2024, in the candidates' order; every year written is a string of
\* four digits; when the window leaves no candidate, the file is the single
\* diagnostic row.
C4_RangeFilter ==
    pc = "written" =>
        LET kept == SelectSeq(Candidates(clean), YearInWindow)
        IN  /\ kept # <<>> => csv_file = <<HeaderRow>> \o kept
            /\ kept = <<>> => IsDiagnostic(csv_file)
            /\ \A i \in 1..Len(DataRows(csv_file)) :
                   /\ Len(DataRows(csv_file)[i][1]) = 4
                   /\ Range(DataRows(csv_file)[i][1]) \subseteq Digit

\* a file written from candidates of which the window drops the first and
\* keeps a later one
C4_Witness ==
    /\ pc = "written"
    /\ Len(Candidates(clean)) >= 2
    /\ ~YearInWindow(Candidates(clean)[1])
    /\ DataRows(csv_file) # <<>>

\* t cut at every occurrence of the character c, from index i with the
\* current piece cur
RECURSIVE PiecesFrom(_, _, _, _)
PiecesFrom(t, c, i, cur) ==
    IF i > Len(t) THEN <<cur>>
    ELSE IF t[i] = c THEN <<cur>> \o PiecesFrom(t, c, i + 1, <<>>)
    ELSE PiecesFrom(t, c, i + 1, Append(cur, t[i]))

\* the lines of a response, cut at "\n"
LinesOf(t) == PiecesFrom(t, "\n", 1, <<>>)

IsDigits(v) == v # <<>> /\ Range(v) \subseteq Digit

\* an integer: digits, with or without a minus sign
IsInteger(v) == IsDigits(v) \/ (Len(v) >= 2 /\ v[1] = "-" /\ IsDigits(Tail(v)))

\* the digits of an integer
DigitsOf(v) == IF v[1] = "-" THEN Tail(v) ELSE v

\* <year in 2014..2024>,<integer>
IsCsvLine(l) ==
    /\ Len(l) >= 6
    /\ SubSeq(l, 1, 4) \in WindowYears
    /\ l[5] = ","
    /\ IsInteger(Drop(l, 6))

IsCsvForm(t) == \A i \in 1..Len(LinesOf(t)) : IsCsvLine(LinesOf(t)[i])

\* C5: for a response made of lines <4-digit year>,<integer>, each year in
\* 2014..2024, the file holds exactly one row per line, in line order, with
\* the line's year and the digits of its integer; lines with the same year
\* each keep their row.
C5_OneRowPerCsvLine ==
    (pc = "written" /\ IsCsvForm(model_text)) =>
        LET ls == LinesOf(model_text)
        IN  csv_file = <<HeaderRow>> \o
                [i \in 1..Len(ls) |->
                    <<SubSeq(ls[i], 1, 4), DigitsOf(Drop(ls[i], 6))>>]

\* a table written from two lines with the same year and different counts
C5_Witness ==
    /\ pc = "written"
    /\ IsCsvForm(model_text)
    /\ Len(LinesOf(model_text)) = 2
    /\ Len(csv_file) = 3
    /\ csv_file[2][1] = csv_file[3][1]
    /\ csv_file[2][2] # csv_file[3][2]

\* the characters a separator SEP is made of: blanks and - : endash emdash
SepOrBlank == {" ", "\t", "-", ":", "endash", "emdash"}

\* the index at which the value of a line <year> SEP <value> starts
ValueStart(l) == SkipWhile(l, 5, SepOrBlank)

\* <4-digit year> SEP <digits>, SEP a non-empty mixture of blanks and
\* separator characters
IsSepLine(l) ==
    /\ Len(l) >= 6
    /\ IsDigits(SubSeq(l, 1, 4))
    /\ ValueStart(l) > 5
    /\ IsDigits(Drop(l, ValueStart(l)))

IsSepForm(t) == \A i \in 1..Len(LinesOf(t)) : IsSepLine(LinesOf(t)[i])

\* the response with the SEP of every line replaced by one comma
CommaForm(t) ==
    JoinLines([i \in 1..Len(LinesOf(t)) |->
        LET l == LinesOf(t)[i]
        IN  SubSeq(l, 1, 4) \o <<",">> \o Drop(l, ValueStart(l))])

SeparatorExampleRows ==
    << <<Y2014, <<"1", "2", "0">>>>,
       <<Y2015, <<"9", "8">>>>,
       <<<<"2", "0", "1", "6">>, <<"8", "7">>>> >>

\* C6, as claimed: for a response whose lines are year SEP value, the file
\* written is identical to the file written for the same response with every
\* SEP replaced by a comma; the separator example gives its three rows.
C6_SameResultAsCommas ==
    (pc = "written" /\ IsSepForm(model_text)) =>
        /\ csv_file = Extract(CommaForm(model_text))
        /\ model_text = SeparatorExample =>
               DataRows(csv_file) = SeparatorExampleRows

\* C6, amended: for such a response the year/count rows written are those
\* written for the comma form, and the two files are identical whenever a
\* row is written; when no year is in the window both files are the single
\* diagnostic row, whose text may differ.  The separator example gives its
\* three rows.
C6_SameRowsAsCommas ==
    (pc = "written" /\ IsSepForm(model_text)) =>
        /\ DataRows(csv_file) = DataRows(Extract(CommaForm(model_text)))
        /\ IsTable(csv_file) => csv_file = Extract(CommaForm(model_text))
        /\ IsDiagnostic(csv_file) =>
               IsDiagnostic(Extract(CommaForm(model_text)))
        /\ model_text = SeparatorExample =>
               csv_file = <<HeaderRow>> \o SeparatorExampleRows

\* the separator example has been written as its three rows
C6_Witness ==
    /\ pc = "written"
    /\ model_text = SeparatorExample
    /\ IsSepForm(model_text)
    /\ DataRows(csv_file) = SeparatorExampleRows

ProseExampleRows ==
    << <<Y2014, <<"1", "2", "0">>>>, <<Y2015, <<"9", "8">>>> >>

\* a year stands at index p of t: four digits of a year in 2014..2024 with
\* no digit before or after them
YearAt(t, p) ==
    /\ p + 3 <= Len(t)
    /\ SubSeq(t, p, p + 3) \in WindowYears
    /\ p > 1 => t[p - 1] \notin Digit
    /\ p + 4 <= Len(t) => t[p + 4] \notin Digit

\* the index of the first digit of t after the four characters at p
NextDigit(t, p) == SkipWhile(t, p + 4, Range(t) \ Digit)

\* the digit run of t that starts at index d
DigitRun(t, d) == SubSeq(t, d, SkipWhile(t, d, Digit) - 1)

AfterBullet(l) == SkipWhile(l, 2, {" ", "\t"})

\* <bullet marker> <year> SEP <value>
IsBulletLine(l) ==
    /\ l # <<>>
    /\ l[1] \in {"-", "*", "bullet"}
    /\ IsSepLine(Drop(l, AfterBullet(l)))

IsBulletForm(t) == \A i \in 1..Len(LinesOf(t)) : IsBulletLine(LinesOf(t)[i])

\* the response with the bullet marker of every line removed
Unbulleted(t) ==
    JoinLines([i \in 1..Len(LinesOf(t)) |->
        Drop(LinesOf(t)[i], AfterBullet(LinesOf(t)[i]))])

\* C8: for a response whose lines each start with a bullet marker (- * or
\* the bullet glyph) followed by year SEP value, the rows written are those
\* written for the response without the markers: one row per line, in line
\* order.
C8_BulletsTransparent ==
    (pc = "written" /\ IsBulletForm(model_text)) =>
        DataRows(csv_file) = DataRows(Extract(Unbulleted(model_text)))

\* a line that by itself yields a row in the per-line pass
ParsesAlone(l) == PerLine(Sanitize(l)) # <<>>

\* the sequence s without its k-th element
Without(s, k) == SubSeq(s, 1, k - 1) \o SubSeq(s, k + 1, Len(s))

\* C9: in a response of which at least one line parses, deleting a line that
\* by itself yields no row leaves the rows written unchanged.
C9_UnparseableLineIsInert ==
    (pc = "written" /\ PerLine(clean) # <<>>) =>
        LET ls == LinesOf(model_text)
        IN  \A k \in 1..Len(ls) :
                (/\ ~ParsesAlone(ls[k])
                 /\ \E j \in 1..Len(ls) : ParsesAlone(ls[j])) =>
                    DataRows(csv_file) =
                        DataRows(Extract(JoinLines(Without(ls, k))))

FencePayloadRows == << <<<<"2", "0", "2", "0">>, <<"4", "5">>>> >>

\* C10: wrapping a response in a ``` fenced block, with or without a
\* language hint line, does not change the rows written; the fenced block
\* that holds 2020,45 gives the row (2020,45).
C10_FenceTransparent ==
    pc = "written" =>
        /\ "backtick" \notin Range(model_text) =>
               /\ DataRows(Extract(Fenced(model_text))) = DataRows(csv_file)
               /\ DataRows(Extract(FencedWithHint(model_text)))
                      = DataRows(csv_file)
        /\ model_text \in {Fenced(FencePayload), FencedWithHint(FencePayload)}
               => DataRows(csv_file) = FencePayloadRows

\* C11: normalisation is idempotent: normalising the normalised text once
\* more (fence stripping, end stripping, separator replacement) gives the
\* same text.
C11_SanitizeIdempotent ==
    pc # "received" => Sanitize(clean) = clean

\* a fenced response with a separator has been normalised to another text
C11_Witness ==
    /\ pc = "sanitized"
    /\ FenceAt(model_text, 1)
    /\ "-" \in Range(model_text)
    /\ clean # <<>>
    /\ clean # model_text

\* the tokens of a raw line of the normalised text
TokensOf(raw) == Parts(StripBullet(Strip(raw)))

\* exactly four characters, all digits
IsFourDigits(p) ==
    /\ Len(p) = 4
    /\ \A i \in 1..4 :
           p[i] \in {"0", "1", "2", "3", "4", "5", "6", "7", "8", "9"}

\* the row the tokens of a line stand for, none when no token is four digits
ExpectedRow(tokens) ==
    IF IsFourDigits(tokens[1]) THEN << <<tokens[1], tokens[2]>> >>
    ELSE LET years == {i \in 1..Len(tokens) : IsFourDigits(tokens[i])}
         IN  IF years = {} THEN <<>>
             ELSE LET k == CHOOSE i \in years : \A j \in years : i <= j
                  IN  << <<tokens[k],
                          IF k = Len(tokens) THEN tokens[1]
                          ELSE tokens[k + 1]>> >>

\* the rows the lines stand for, in line order
RECURSIVE ExpectedRows(_)
ExpectedRows(raws) ==
    IF raws = <<>> THEN <<>>
    ELSE (IF Len(TokensOf(Head(raws))) >= 2
          THEN ExpectedRow(TokensOf(Head(raws))) ELSE <<>>)
             \o ExpectedRows(Tail(raws))

\* C12: a line with at least two tokens gives the row (token 1, token 2)
\* when token 1 is exactly four digits; otherwise its first four-digit token
\* is the year and the token after it the value, token 1 when the year is the
\* last token; without a four-digit token it gives no row.  The value is
\* taken as it is, numeric or not, and a row in the window is written so.
C12_YearValueAssignment ==
    pc = "written" =>
        /\ PerLine(clean) = ExpectedRows(SplitLines(clean))
        /\ \A row \in Range(ExpectedRows(SplitLines(clean))) :
               YearInWindow(row) => row \in Range(DataRows(csv_file))

\* a line whose year is its last token: the first token, a word, is written
\* as the count
C12_Witness ==
    /\ pc = "written"
    /\ clean = <<"a", " ">> \o Y2014
    /\ csv_file = <<HeaderRow, <<Y2014, <<"a">> >> >>

\* the file written from the candidate rows: the rows in the window under
\* the header, the text in a response cell when none is
TableOf(rows, text) ==
    IF SelectSeq(rows, YearInWindow) # <<>>
    THEN <<HeaderRow>> \o SelectSeq(rows, YearInWindow)
    ELSE << <<ResponseCell>>, <<text>> >>

\* C13: the whole-text scan runs exactly when the loop over the lines gave
\* no row, whatever the range filter does later: with a row from the lines
\* the file holds rows from the lines only, and when all of them are out of
\* range it is the response table even if the scan would find a row in range.
C13_ScanOnlyWhenNoLineRow ==
    pc = "written" =>
        csv_file = IF PerLine(clean) = <<>>
                   THEN TableOf(FindAll(clean), clean)
                   ELSE TableOf(PerLine(clean), clean)

\* the lines gave one row out of range, the scan would find one in range,
\* and the response table is written
C13_Witness ==
    /\ pc = "written"
    /\ PerLine(clean) # <<>>
    /\ SelectSeq(PerLine(clean), YearInWindow) = <<>>
    /\ SelectSeq(FindAll(clean), YearInWindow) # <<>>
    /\ IsDiagnostic(csv_file)

\* the number of lines of the text that are not blank
NonBlankLines(text) ==
    Cardinality({i \in DOMAIN SplitLines(text) :
                    Strip(SplitLines(text)[i]) # <<>>})

\* C17: when the loop over the lines gives any row, it gives at most one
\* per non-blank line, so the file never has more rows than the normalised
\* text has non-blank lines: further pairs on a line are dropped.
C17_AtMostOneRowPerLine ==
    (pc = "written" /\ PerLine(clean) # <<>>) =>
        /\ Len(PerLine(clean)) <= NonBlankLines(clean)
        /\ Len(DataRows(csv_file)) <= NonBlankLines(clean)

\* 2014,120,2015,98 is written as the one row 2014,120
C17_Witness ==
    /\ pc = "written"
    /\ clean = TwoPairsExample
    /\ NonBlankLines(clean) = 1
    /\ csv_file = <<HeaderRow, <<Y2014, <<"1", "2", "0">> >> >>

(***************************************************************************)
(* los_angeles.py and portland.py: load_*_crime_data reads one offence log *)
(* per year, create_category_csvs writes one year,count file per category. *)
(* A data frame is the sequence of its rows; of a row the model keeps the  *)
(* category cell and the YEAR cell.  A folder is the set of its files,     *)
(* each a pair of a file name and the rows written to it.                  *)
(***************************************************************************)
UpperCase ==
    <<"A", "B", "C", "D", "E", "F", "G", "H", "I", "J", "K", "L", "M", "N",
    "O", "P", "Q", "R", "S", "T", "U", "V", "W", "X", "Y", "Z">>

LowerCase ==
    <<"a", "b", "c", "d", "e", "f", "g", "h", "i", "j", "k", "l", "m", "n",
    "o", "p", "q", "r", "s", "t", "u", "v", "w", "x", "y", "z">>

\* the characters of the model in code point order
CharOrder ==
    <<" ", "&", ",", "-", ".", "/", "0", "1", "2", "3", "4", "5", "6", "7",
    "8", "9">> \o UpperCase \o <<"_">> \o LowerCase

\* ord(c), up to the order
Ord(c) == CHOOSE i \in DOMAIN CharOrder : CharOrder[i] = c

\* a < b for two str
RECURSIVE StrLess(_, _)
StrLess(a, b) ==
    IF b = <<>> THEN FALSE
    ELSE IF a = <<>> THEN TRUE
    ELSE IF Head(a) = Head(b) THEN StrLess(Tail(a), Tail(b))
    ELSE Ord(Head(a)) < Ord(Head(b))

\* sorted(S) for a set of str
RECURSIVE SortedStrs(_)
SortedStrs(S) ==
    IF S = {} THEN <<>>
    ELSE LET m == CHOOSE x \in S : \A y \in S \ {x} : StrLess(x, y)
         IN  <<m>> \o SortedStrs(S \ {m})

\* sorted(S) for a set of int
RECURSIVE SortedInts(_)
SortedInts(S) ==
    IF S = {} THEN <<>>
    ELSE LET m == CHOOSE x \in S : \A y \in S : x <= y
         IN  <<m>> \o SortedInts(S \ {m})

\* str(n) of an int n >= 0
RECURSIVE IntToStr(_)
IntToStr(n) ==
    IF n < 10 THEN <<ToString(n)>>
    ELSE IntToStr(n \div 10) \o <<ToString(n % 10)>>

\* str.lower() of a character
ToLower(c) ==
    IF c \in Range(UpperCase)
    THEN LowerCase[CHOOSE i \in DOMAIN UpperCase : UpperCase[i] = c]
    ELSE c

\* str.lower()
RECURSIVE Lower(_)
Lower(s) ==
    IF s = <<>> THEN <<>> ELSE <<ToLower(Head(s))>> \o Lower(Tail(s))

\* str.replace(c, r) for a character c
RECURSIVE Replace(_, _, _)
Replace(s, c, r) ==
    IF s = <<>> THEN <<>>
    ELSE (IF Head(s) = c THEN r ELSE <<Head(s)>>) \o Replace(Tail(s), c, r)

\* c.isalnum() or c in ['-', '_']
KeepChar(c) ==
    c \in Digit \cup Range(UpperCase) \cup Range(LowerCase) \cup {"-", "_"}

\* safe_filename of a category
SafeFilename(category) ==
    SelectSeq(Replace(Replace(Replace(Lower(category), " ", <<"-">>),
                              "/", <<"-">>),
                      "&", <<"a", "n", "d">>),
              KeepChar)

\* f"{stem}.csv"
CsvName(stem) == stem \o <<".", "c", "s", "v">>

\* a missing value: an empty cell of the input is read as NaN
NaN == <<>>

MotorVehicleTheft ==
    <<"M", "o", "t", "o", "r", " ", "V", "e", "h", "i", "c", "l", "e", " ",
    "T", "h", "e", "f", "t">>

TheftFromMotorVehicle ==
    <<"T", "h", "e", "f", "t", " ", "F", "r", "o", "m", " ", "M", "o", "t",
    "o", "r", " ", "V", "e", "h", "i", "c", "l", "e">>

Burglary ==
    <<"B", "u", "r", "g", "l", "a", "r", "y">>

Vandalism ==
    <<"V", "a", "n", "d", "a", "l", "i", "s", "m">>

AggravatedAssault ==
    <<"A", "g", "g", "r", "a", "v", "a", "t", "e", "d", " ", "A", "s", "s",
    "a", "u", "l", "t">>

VehicleCrime ==
    <<"V", "e", "h", "i", "c", "l", "e", " ", "C", "r", "i", "m", "e">>

PropertyCrime ==
    <<"P", "r", "o", "p", "e", "r", "t", "y", " ", "C", "r", "i", "m", "e">>

ViolentCrime ==
    <<"V", "i", "o", "l", "e", "n", "t", " ", "C", "r", "i", "m", "e">>

\* mapping.get(offense, offense)
map_category(offense) ==
    CASE offense = MotorVehicleTheft -> VehicleCrime
      [] offense = TheftFromMotorVehicle -> VehicleCrime
      [] offense = Burglary -> PropertyCrime
      [] offense = Vandalism -> PropertyCrime
      [] offense = AggravatedAssault -> ViolentCrime
      [] OTHER -> offense

\* the year of an input file: stem.split("-")[0] in Los Angeles,
\* stem.split("_")[-1] in Portland
YearOfStem(c, stem) ==
    IF c = "Los Angeles" THEN PiecesFrom(stem, "-", 1, <<>>)[1]
    ELSE LET ps == PiecesFrom(stem, "_", 1, <<>>) IN ps[Len(ps)]

\* d[k] = v for a dict d kept as the sequence of its items
DictPut(d, k, v) ==
    IF \E i \in DOMAIN d : d[i][1] = k
    THEN [i \in DOMAIN d |-> IF d[i][1] = k THEN <<k, v>> ELSE d[i]]
    ELSE Append(d, <<k, v>>)

\* the loop over sorted(input_folder.glob("*.csv")), from the dict d
RECURSIVE LoadFrom(_, _, _)
LoadFrom(c, files, d) ==
    IF files = <<>> THEN d
    ELSE LoadFrom(c, Tail(files),
                  DictPut(d, YearOfStem(c, Head(files).stem), Head(files)))

\* the rows of one year's data frame with the YEAR column added
WithYear(y, df) ==
    [i \in DOMAIN df.rows |-> [cell |-> df.rows[i], YEAR |-> ToInt(y)]]

\* pd.concat(all_data, ignore_index=True)
RECURSIVE ConcatYears(_)
ConcatYears(d) ==
    IF d = <<>> THEN <<>>
    ELSE WithYear(Head(d)[1], Head(d)[2]) \o ConcatYears(Tail(d))

\* the name of the category column the script groups by
TargetColumn(c) ==
    IF c = "Los Angeles" THEN "CATEGORY" ELSE "CustomCrimeCategory"

\* the column of the frames of a dict (the files of a folder have the same)
ColumnOf(d) == Head(d)[2].column

\* the script can group: the target column is there, or Portland can
\* generate it from OffenseType
HasTarget(c, column) ==
    \/ column = TargetColumn(c)
    \/ c = "Portland" /\ column = "OffenseType"

\* the target cell of a row: generated by map_category when Portland's
\* frames have no CustomCrimeCategory column
TargetCell(c, column, cell) ==
    IF c = "Portland" /\ column = "OffenseType" THEN map_category(cell)
    ELSE cell

\* combined_df with the target column in place
Combined(c, d) ==
    LET rows == ConcatYears(d)
    IN  [i \in DOMAIN rows |->
            [category |-> TargetCell(c, ColumnOf(d), rows[i].cell),
             YEAR |-> rows[i].YEAR]]

\* sorted([cat for cat in df[target].unique() if pd.notna(cat)])
SortedCategories(df) ==
    SortedStrs({df[i].category : i \in DOMAIN df} \ {NaN})

\* groupby('YEAR').size() of the rows of a category, sorted by YEAR, as the
\* rows to_csv writes
YearlyCounts(df, category) ==
    LET mine == SelectSeq(df, LAMBDA r : r.category = category)
        years == SortedInts({mine[i].YEAR : i \in DOMAIN mine})
    IN  [k \in DOMAIN years |->
            <<IntToStr(years[k]),
              IntToStr(Len(SelectSeq(mine, LAMBDA r : r.YEAR = years[k])))>>]

\* the folder after a file is written: a file of that name is replaced
PutFile(folder, name, rows) ==
    {f \in folder : f[1] # name} \cup {<<name, rows>>}

(***************************************************************************)
(* The input folders: up to MaxFiles yearly files, sorted by name, each    *)
(* with up to MaxRecords rows.                                             *)
(***************************************************************************)
\* the most input files of a folder
MaxFiles == 2

\* the most rows of an input file
MaxRecords == 2

HitRun ==
    <<"H", "i", "t", " ", "R", "u", "n">>

HitSlashRun ==
    <<"H", "i", "t", "/", "R", "u", "n">>

\* category cells: two names that differ in one character, two offence
\* types of Portland's mapping, and the missing value
Cells == {HitRun, HitSlashRun, Burglary, Vandalism, NaN}

FileYears == <<Y2014, Y2015>>

\* 2014-PART-I in Los Angeles, Crime_Data_2014 in Portland
StemOf(c, y) ==
    IF c = "Los Angeles" THEN y \o <<"-", "P", "A", "R", "T", "-", "I">>
    ELSE <<"C", "r", "i", "m", "e", "_", "D", "a", "t", "a", "_">> \o y

\* the columns an input file may have for its category
ColumnsOf(c) ==
    IF c = "Los Angeles" THEN {"CATEGORY"}
    ELSE {"CustomCrimeCategory", "OffenseType", "Neighborhood"}

RowLists == UNION {[1..n -> Cells] : n \in 0..MaxRecords}

\* the folders with the files of the years ys (ascending)
RECURSIVE FoldersOf(_, _, _)
FoldersOf(c, column, ys) ==
    IF ys = <<>> THEN {<<>>}
    ELSE {<<[stem |-> StemOf(c, Head(ys)), column |-> column, rows |-> rs]>>
              \o rest :
              rs \in RowLists, rest \in FoldersOf(c, column, Tail(ys))}

\* the ascending selections of at most MaxFiles of the years
YearSelections ==
    {SelectSeq(FileYears, LAMBDA y : y \in S) :
        S \in {T \in SUBSET Range(FileYears) : Cardinality(T) <= MaxFiles}}

Folders(c) ==
    UNION {FoldersOf(c, column, ys) :
              column \in ColumnsOf(c), ys \in YearSelections}

(***************************************************************************)
(* One run of los_angeles.py or portland.py.                               *)
(***************************************************************************)
AggregationInit ==
    /\ pc = "start"
    /\ city \in {"Los Angeles", "Portland"}
    /\ input_folder \in Folders(city)
    /\ crime_data = <<>>
    /\ combined_df = <<>>
    /\ categories = <<>>
    /\ output_folder = {}
    /\ model_text = <<>>
    /\ clean = <<>>
    /\ csv_file = <<>>
    /\ pdf_files = <<>>
    /\ CRIME_CATEGORIES = <<>>
    /\ category_data = <<>>
    /\ pdf_idx = 0
    /\ cat_idx = 0
    /\ year = <<>>
    /\ page_nums = <<>>

\* data = load_la_crime_data() / load_portland_crime_data()
LoadCrimeData ==
    /\ pc = "start"
    /\ crime_data' = LoadFrom(city, input_folder, <<>>)
    /\ pc' = "loaded"
    /\ UNCHANGED <<city, input_folder, combined_df, categories,
                   output_folder, memphisVars, reportVars>>

\* create_category_csvs up to the loop over the categories; Portland does
\* nothing without data or without a column to group by
CombineYears ==
    /\ pc = "loaded"
    /\ crime_data # <<>>
    /\ HasTarget(city, ColumnOf(crime_data))
    /\ combined_df' = Combined(city, crime_data)
    /\ categories' = SortedCategories(combined_df')
    /\ pc' = "categories"
    /\ UNCHANGED <<city, input_folder, crime_data, output_folder,
                   memphisVars, reportVars>>

\* Portland: no data (the run ends before create_category_csvs, or at its
\* first test)
NoData ==
    /\ pc = "loaded"
    /\ city = "Portland"
    /\ crime_data = <<>>
    /\ pc' = "done"
    /\ UNCHANGED <<city, aggregationVars, output_folder, memphisVars,
                   reportVars>>

\* Portland: neither CustomCrimeCategory nor OffenseType, the function
\* returns after the frames are combined
NoTargetColumn ==
    /\ pc = "loaded"
    /\ city = "Portland"
    /\ crime_data # <<>>
    /\ ~HasTarget(city, ColumnOf(crime_data))
    /\ combined_df' =
           [i \in DOMAIN ConcatYears(crime_data) |->
               [category |-> NaN, YEAR |-> ConcatYears(crime_data)[i].YEAR]]
    /\ pc' = "done"
    /\ UNCHANGED <<city, input_folder, crime_data, categories,
                   output_folder, memphisVars, reportVars>>

\* Los Angeles: pd.concat of an empty list raises ValueError
ConcatFails ==
    /\ pc = "loaded"
    /\ city = "Los Angeles"
    /\ crime_data = <<>>
    /\ pc' = "failed"
    /\ UNCHANGED <<city, aggregationVars, output_folder, memphisVars,
                   reportVars>>

\* one pass of the loop over sorted(categories)
WriteCategoryCsv ==
    /\ pc = "categories"
    /\ categories # <<>>
    /\ output_folder' =
           PutFile(output_folder, CsvName(SafeFilename(Head(categories))),
                   <<HeaderRow>> \o YearlyCounts(combined_df, Head(categories)))
    /\ categories' = Tail(categories)
    /\ UNCHANGED <<pc, city, input_folder, crime_data, combined_df,
                   memphisVars, reportVars>>

\* the loop over the categories is over
AllCategoriesWritten ==
    /\ pc = "categories"
    /\ categories = <<>>
    /\ pc' = "done"
    /\ UNCHANGED <<city, aggregationVars, output_folder, memphisVars,
                   reportVars>>

AggregationNext ==
    \/ LoadCrimeData
    \/ CombineYears
    \/ NoData
    \/ NoTargetColumn
    \/ ConcatFails
    \/ WriteCategoryCsv
    \/ AllCategoriesWritten

AggregationSpec == AggregationInit /\ [][AggregationNext]_vars

(***************************************************************************)
(* Properties of the aggregation, stated over the input folder.            *)
(***************************************************************************)
\* the run wrote its files: there was data and a column to group by
Grouped ==
    /\ pc = "done"
    /\ input_folder # <<>>
    /\ HasTarget(city, input_folder[1].column)

\* the year in the name of an input file: its digits
FileYear(f) == SelectSeq(f.stem, LAMBDA c : c \in Digit)

\* the category of row i of an input file, as the script groups it
CategoryAt(f, i) == TargetCell(city, f.column, f.rows[i])

\* the rows of an input file that are of category c
RecordsOf(f, c) == {i \in DOMAIN f.rows : CategoryAt(f, i) = c}

\* the categories of the input, the missing value left out
InputCategories ==
    UNION {{CategoryAt(input_folder[k], i) :
               i \in DOMAIN input_folder[k].rows} :
           k \in DOMAIN input_folder} \ {NaN}

\* the rows with a category in the input
CategorizedRecords ==
    UNION {{<<k, i>> : i \in {j \in DOMAIN input_folder[k].rows :
                                 CategoryAt(input_folder[k], j) # NaN}} :
           k \in DOMAIN input_folder}

\* one row per input file with a record of category c, in file order
RECURSIVE ExpectedCounts(_, _)
ExpectedCounts(files, c) ==
    IF files = <<>> THEN <<>>
    ELSE (IF RecordsOf(Head(files), c) # {}
          THEN << <<FileYear(Head(files)),
                    IntToStr(Cardinality(RecordsOf(Head(files), c)))>> >>
          ELSE <<>>)
             \o ExpectedCounts(Tail(files), c)

\* the sum of the count cells of the rows of a file
RECURSIVE SumOfCounts(_)
SumOfCounts(rows) ==
    IF rows = <<>> THEN 0 ELSE ToInt(Head(rows)[2]) + SumOfCounts(Tail(rows))

\* the sum of the counts of the files of a folder
RECURSIVE TotalOfCounts(_)
TotalOfCounts(folder) ==
    IF folder = {} THEN 0
    ELSE LET f == CHOOSE g \in folder : TRUE
         IN  SumOfCounts(Tail(f[2])) + TotalOfCounts(folder \ {f})

\* C14: after a run of Los Angeles or Portland, the file of every category
\* of the input holds, under the header, exactly one row for each year in
\* which the category has a record, with the number of the category's
\* records in that year's input file as the count, years ascending; and the
\* counts of all files add up to the number of records with a category.
C14_YearlyCountsPerCategory ==
    Grouped =>
        /\ \A c \in InputCategories :
               <<CsvName(SafeFilename(c)),
                 <<HeaderRow>> \o ExpectedCounts(input_folder, c)>>
                   \in output_folder
        /\ TotalOfCounts(output_folder) = Cardinality(CategorizedRecords)

\* C18: two distinct categories of the input never get the same file name,
\* so the run leaves one file per category and none is overwritten.
C18_FilenamesInjective ==
    Grouped =>
        /\ \A c1, c2 \in InputCategories :
               c1 # c2 => SafeFilename(c1) # SafeFilename(c2)
        /\ Cardinality(output_folder) = Cardinality(InputCategories)

(***************************************************************************)
(* washington.py and chicago.py: for every PDF report of the input folder  *)
(* the model is asked for the count of every category, and every           *)
(* category's file is rewritten.  A PDF is the sequence of the texts of    *)
(* its pages.                                                              *)
(***************************************************************************)
SearchText ==
    <<"I", "n", "d", "e", "x", " ", "C", "r", "i", "m", "e">>

ErrorCell ==
    <<"E", "R", "R", "O", "R">>

\* a in b
Contains(a, b) ==
    \E i \in 1..(Len(b) - Len(a) + 1) : SubSeq(b, i, i + Len(a) - 1) = a

\* PagesFrom comparing the texts as they are
RECURSIVE PagesFromCaseSensitive(_, _, _)
PagesFromCaseSensitive(pages, search_text, i) ==
    IF i > Len(pages) THEN <<>>
    ELSE (IF Contains(search_text, pages[i]) THEN <<i - 1>> ELSE <<>>)
             \o PagesFromCaseSensitive(pages, search_text, i + 1)

\* the loop over enumerate(reader.pages), from page i (1-based here, the
\* list holds the 0-based index)
RECURSIVE PagesFrom(_, _, _)
PagesFrom(pages, search_text, i) ==
    IF i > Len(pages) THEN <<>>
    ELSE (IF Contains(Lower(search_text), Lower(pages[i])) THEN <<i - 1>>
          ELSE <<>>)
             \o PagesFrom(pages, search_text, i + 1)

\* the list find_page_with_text returns; it raises ValueError when the
\* list is empty
find_page_with_text(pdf, search_text) == PagesFrom(pdf.pages, search_text, 1)

\* Path(filename).stem in Washington, Path(filename).stem.split("-")[0] in
\* Chicago
extract_year_from_filename(c, stem) ==
    IF c = "Washington" THEN stem ELSE PiecesFrom(stem, "-", 1, <<>>)[1]

\* str(response).strip().replace(',', '')
CleanResponse(response) == Replace(Strip(response), ",", <<>>)

\* a < b for two (year, count) tuples
TupleLess(a, b) ==
    StrLess(a[1], b[1]) \/ (a[1] = b[1] /\ StrLess(a[2], b[2]))

\* a tuple put into a sorted list, after the tuples that are not greater
RECURSIVE Insert(_, _)
Insert(s, r) ==
    IF s = <<>> THEN <<r>>
    ELSE IF TupleLess(r, Head(s)) THEN <<r>> \o s
    ELSE <<Head(s)>> \o Insert(Tail(s), r)

\* sorted(data)
RECURSIVE SortedData(_)
SortedData(data) ==
    IF data = <<>> THEN <<>>
    ELSE Insert(SortedData(SubSeq(data, 1, Len(data) - 1)), data[Len(data)])

\* the rows write_category_csv writes
write_category_csv(data) == <<HeaderRow>> \o SortedData(data)

\* the loop over CRIME_CATEGORIES that writes every category's file
RECURSIVE WriteAll(_, _, _)
WriteAll(folder, cats, data) ==
    IF cats = <<>> THEN folder
    ELSE WriteAll(PutFile(folder, CsvName(Head(cats)),
                          write_category_csv(data[Head(cats)])),
                  Tail(cats), data)

(***************************************************************************)
(* The inputs: the category list, the reports of the input folder sorted   *)
(* by name, and what the model answers.                                    *)
(***************************************************************************)
\* the most PDF files of the input folder
MaxPdfs == 2

Homicide ==
    <<"h", "o", "m", "i", "c", "i", "d", "e">>

Larceny ==
    <<"l", "a", "r", "c", "e", "n", "y">>

\* the lines of crime_catagories.txt
CategoryLists ==
    {<<>>, <<Homicide>>, <<Homicide, Larceny>>, <<Larceny, Homicide>>}

PageUpper ==
    <<"I", "N", "D", "E", "X", " ", "C", "R", "I", "M", "E">>

PageLower ==
    <<"T", "o", "t", "a", "l", " ", "i", "n", "d", "e", "x", " ", "c", "r",
    "i", "m", "e", "s", " ", "5">>

PageOther ==
    <<"I", "n", "d", "e", "x", "e", "d", " ", "c", "r", "i", "m", "e">>

PageCover ==
    <<"A", "n", "n", "u", "a", "l", " ", "R", "e", "p", "o", "r", "t">>

\* the page texts that hold the search text, in some case
PagesWithIndexCrime == {PageUpper, PageLower}

\* the pages of a report; a scanned page has the empty text
PageLists ==
    { <<PageCover>>,
      <<PageUpper>>,
      <<PageCover, PageLower>>,
      <<PageLower, PageOther, PageUpper>>,
      <<(<<>>), PageOther>> }

\* the names of the reports, sorted: 2014.pdf in Washington,
\* 2014-Annual.pdf in Chicago, where two reports may be of the same year
StemsOf(c) ==
    IF c = "Washington" THEN <<Y2014, Y2015, Y2024>>
    ELSE <<Y2014 \o <<"-", "A">>, Y2014 \o <<"-", "B">>,
           Y2015 \o <<"-", "A">>>>

\* Washington never looks at the pages
PageListsOf(c) == IF c = "Washington" THEN {<<PageCover>>} ELSE PageLists

\* the folders with the reports named stems (ascending)
RECURSIVE PdfListsOf(_, _)
PdfListsOf(c, stems) ==
    IF stems = <<>> THEN {<<>>}
    ELSE {<<[stem |-> Head(stems), pages |-> ps]>> \o rest :
              ps \in PageListsOf(c), rest \in PdfListsOf(c, Tail(stems))}

\* the ascending selections of at most MaxPdfs of the names
StemSelections(c) ==
    {SelectSeq(StemsOf(c), LAMBDA n : n \in S) :
        S \in {T \in SUBSET Range(StemsOf(c)) : Cardinality(T) <= MaxPdfs}}

PdfLists(c) == UNION {PdfListsOf(c, stems) : stems \in StemSelections(c)}

\* what the model answers when the query returns
Answers == {<<" ", "1", ",", "2", "0", "4", "\n">>, <<"7">>}

(***************************************************************************)
(* One run of washington.py or chicago.py.                                 *)
(***************************************************************************)
ReportInit ==
    /\ pc = "pdf"
    /\ city \in {"Washington", "Chicago"}
    /\ pdf_files \in PdfLists(city)
    /\ CRIME_CATEGORIES \in CategoryLists
    /\ category_data = [c \in Range(CRIME_CATEGORIES) |-> <<>>]
    /\ pdf_idx = 0
    /\ cat_idx = 0
    /\ year = <<>>
    /\ page_nums = <<>>
    /\ output_folder = {}
    /\ model_text = <<>>
    /\ clean = <<>>
    /\ csv_file = <<>>
    /\ input_folder = <<>>
    /\ crime_data = <<>>
    /\ combined_df = <<>>
    /\ categories = <<>>

\* the PDF the loop is at
CurrentPdf == pdf_files[pdf_idx + 1]

\* the category the inner loop is at
CurrentCategory == CRIME_CATEGORIES[cat_idx + 1]

\* if not pdf_files: exit(1)
NoPdfFiles ==
    /\ pc = "pdf"
    /\ pdf_files = <<>>
    /\ pc' = "exit"
    /\ UNCHANGED <<city, output_folder, memphisVars, aggregationVars,
                   reportVars>>

\* the head of the loop body: the year of the file, and in Chicago the
\* pages that hold "Index Crime"
StartPdf ==
    /\ pc = "pdf"
    /\ pdf_idx < Len(pdf_files)
    /\ city = "Chicago" => find_page_with_text(CurrentPdf, SearchText) # <<>>
    /\ year' = extract_year_from_filename(city, CurrentPdf.stem)
    /\ page_nums' = IF city = "Chicago"
                    THEN find_page_with_text(CurrentPdf, SearchText)
                    ELSE page_nums
    /\ cat_idx' = 0
    /\ pc' = "query"
    /\ UNCHANGED <<city, output_folder, memphisVars, aggregationVars,
                   pdf_files, CRIME_CATEGORIES, category_data, pdf_idx>>

\* Chicago: find_page_with_text raises ValueError, continue
SkipPdf ==
    /\ pc = "pdf"
    /\ pdf_idx < Len(pdf_files)
    /\ city = "Chicago"
    /\ find_page_with_text(CurrentPdf, SearchText) = <<>>
    /\ year' = extract_year_from_filename(city, CurrentPdf.stem)
    /\ pdf_idx' = pdf_idx + 1
    /\ UNCHANGED <<pc, city, output_folder, memphisVars, aggregationVars,
                   pdf_files, CRIME_CATEGORIES, category_data, cat_idx,
                   page_nums>>

\* QueryRaises with nothing appended for the category
QueryRaisesNoRow ==
    /\ pc = "query"
    /\ cat_idx < Len(CRIME_CATEGORIES)
    /\ cat_idx' = cat_idx + 1
    /\ UNCHANGED <<pc, city, output_folder, memphisVars, aggregationVars,
                   pdf_files, CRIME_CATEGORIES, category_data, pdf_idx, year,
                   page_nums>>

\* query_openai_for_category returns the model's answer
QueryReturns ==
    /\ pc = "query"
    /\ cat_idx < Len(CRIME_CATEGORIES)
    /\ \E response \in Answers :
           category_data' =
               [category_data EXCEPT
                   ![CurrentCategory] =
                       Append(@, <<year, CleanResponse(response)>>)]
    /\ cat_idx' = cat_idx + 1
    /\ UNCHANGED <<pc, city, output_folder, memphisVars, aggregationVars,
                   pdf_files, CRIME_CATEGORIES, pdf_idx, year, page_nums>>

\* query_openai_for_category raises: the except branch
QueryRaises ==
    /\ pc = "query"
    /\ cat_idx < Len(CRIME_CATEGORIES)
    /\ category_data' =
           [category_data EXCEPT
               ![CurrentCategory] = Append(@, <<year, ErrorCell>>)]
    /\ cat_idx' = cat_idx + 1
    /\ UNCHANGED <<pc, city, output_folder, memphisVars, aggregationVars,
                   pdf_files, CRIME_CATEGORIES, pdf_idx, year, page_nums>>

\* the loop that writes every category's file, and on to the next PDF
WriteCategoryCsvs ==
    /\ pc = "query"
    /\ cat_idx = Len(CRIME_CATEGORIES)
    /\ output_folder' = WriteAll(output_folder, CRIME_CATEGORIES, category_data)
    /\ pdf_idx' = pdf_idx + 1
    /\ pc' = "pdf"
    /\ UNCHANGED <<city, memphisVars, aggregationVars, pdf_files,
                   CRIME_CATEGORIES, category_data, cat_idx, year, page_nums>>

\* the loop over pdf_files is over
AllPdfsDone ==
    /\ pc = "pdf"
    /\ pdf_files # <<>>
    /\ pdf_idx = Len(pdf_files)
    /\ pc' = "done"
    /\ UNCHANGED <<city, output_folder, memphisVars, aggregationVars,
                   reportVars>>

ReportNext ==
    \/ NoPdfFiles
    \/ StartPdf
    \/ SkipPdf
    \/ QueryReturns
    \/ QueryRaises
    \/ WriteCategoryCsvs
    \/ AllPdfsDone

ReportSpec == ReportInit /\ [][ReportNext]_vars

(***************************************************************************)
(* Properties of the report loops, stated over the input folder.           *)
(***************************************************************************)
\* a report the loop processes: any in Washington, in Chicago one with a
\* page that holds the search text
IsProcessed(pdf) ==
    city = "Chicago" => \E i \in DOMAIN pdf.pages :
                            pdf.pages[i] \in PagesWithIndexCrime

\* the reports the loop is through
PdfsSoFar == SubSeq(pdf_files, 1, pdf_idx)

\* the years of the processed ones among them, in file order: the first
\* four characters of their names
ProcessedYears ==
    LET done == SelectSeq(PdfsSoFar, IsProcessed)
    IN  [k \in DOMAIN done |-> SubSeq(done[k].stem, 1, 4)]

\* the counts a row may hold: an answer without blanks and commas
CleanAnswers == {<<"1", "2", "0", "4">>, <<"7">>}

\* the files of a category in the output folder
FilesOf(c) == {f \in output_folder : f[1] = CsvName(c)}

\* rows is in ascending order of its (year, count) pairs
Ascending(rows) ==
    \A i, j \in DOMAIN rows :
        i < j => \/ StrLess(rows[i][1], rows[j][1])
                 \/ /\ rows[i][1] = rows[j][1]
                    /\ ~StrLess(rows[j][2], rows[i][2])

\* the file of category c holds the header and one row for each processed
\* report, in ascending order, each with a count or ERROR
HoldsProcessed(c) ==
    \E f \in FilesOf(c) :
        /\ FilesOf(c) = {f}
        /\ f[2][1] = HeaderRow
        /\ Len(Tail(f[2])) = Len(ProcessedYears)
        /\ [k \in DOMAIN Tail(f[2]) |-> Tail(f[2])[k][1]] = ProcessedYears
        /\ \A k \in DOMAIN Tail(f[2]) :
               Tail(f[2])[k][2] \in CleanAnswers \cup {ErrorCell}
        /\ Ascending(Tail(f[2]))

MatchingPages(pdf) ==
    {i - 1 : i \in {j \in DOMAIN pdf.pages :
                       pdf.pages[j] \in PagesWithIndexCrime}}

\* the list find_page_with_text returned for the report the loop is at: not
\* empty, ascending, and exactly the pages that hold the search text
PagesFound ==
    (pc = "query" /\ city = "Chicago") =>
        /\ page_nums # <<>>
        /\ \A i, j \in DOMAIN page_nums : i < j => page_nums[i] < page_nums[j]
        /\ Range(page_nums) = MatchingPages(CurrentPdf)

\* a step from a report none of whose pages holds the search text leaves
\* the rows of every category and every file as they are and goes on to the
\* next report
SkippedEntirely ==
    (/\ pc = "pdf"
     /\ city = "Chicago"
     /\ pdf_idx < Len(pdf_files)
     /\ MatchingPages(CurrentPdf) = {}) =>
        /\ category_data' = category_data
        /\ output_folder' = output_folder
        /\ pdf_idx' = pdf_idx + 1
        /\ pc' = "pdf"

\* a step from a report with a page that holds the search text starts its
\* queries: find_page_with_text raises only when no page matches
ProcessedWhenFound ==
    (/\ pc = "pdf"
     /\ city = "Chicago"
     /\ pdf_idx < Len(pdf_files)
     /\ MatchingPages(CurrentPdf) # {}) =>
        /\ pc' = "query"
        /\ pdf_idx' = pdf_idx
        /\ Range(page_nums') = MatchingPages(CurrentPdf)

\* C16: in Chicago, find_page_with_text gives a non-empty ascending list of
\* the 0-based indexes of the pages whose text holds the search text in any
\* case, and raises when no page does; the loop then skips the report
\* entirely: no row, not even ERROR, for any category, no file rewritten,
\* and on with the next report.
C16_PageDiscoveryAndSkip ==
    /\ []PagesFound
    /\ [][SkippedEntirely]_vars
    /\ [][ProcessedWhenFound]_vars

\* the first report was skipped and the second, with the search text on its
\* first and third page in other cases, processed: one row per category
C16_Witness ==
    /\ pc = "done"
    /\ city = "Chicago"
    /\ Len(pdf_files) = 2
    /\ MatchingPages(pdf_files[1]) = {}
    /\ page_nums = <<0, 2>>
    /\ CRIME_CATEGORIES # <<>>
    /\ \A c \in Range(CRIME_CATEGORIES) : Len(category_data[c]) = 1
====
